---- MODULE Spec2Model ----
(***************************************************************************)
(* Model of the AI manager of src/services/ai_manager.py: QuotaManager,    *)
(* ContentValidator and AIManager (provider registry, failure bookkeeping, *)
(* fallback over providers, emergency templates).                          *)
(*                                                                         *)
(* A text is modelled by the features the code reads from it: its length,  *)
(* its stripped length, its word and unique-word counts, the number of     *)
(* generic patterns it contains, whether it shows structure, how it        *)
(* starts, and whether it carries the "emergency_mode": true marker.       *)
(***************************************************************************)
EXTENDS Integers, Sequences, FiniteSets, TLC

\* ------------------------------------------------------------------ bounds
\* number of generate calls explored
MaxRequests == 2
\* number of clock advances explored
MaxTicks == 1
\* daily request limits of the quota manager, scaled down so that a window
\* can be used up within MaxRequests calls (source: 45 / 1000 / 500 / 200)
GeminiDaily == 2
OtherDaily == 3
\* number of request threads that call increment_usage concurrently
NThreads == 3
\* whitespace characters around the texts given to validate_content
MaxPad == 2
\* requests counted per provider when the QuotaManager is exercised alone
MaxUsage == 2
\* half days the clock advances when the QuotaManager is exercised alone
MaxHalfDays == 5

\* --------------------------------------------------------------- constants
ProviderNames == {"openai", "groq", "gemini", "huggingface"}

ComponentTypes == {"mental_drivers", "visual_proofs", "anti_objection", "general", "other"}

\* QuotaManager.provider_limits[p]['daily']
daily == [p \in ProviderNames |-> IF p = "gemini" THEN GeminiDaily ELSE OtherDaily]

\* timedelta(days=1) in seconds
Day == 86400

\* quota cooldown of register_failure in seconds
QuotaCooldown == 3600

\* AIManager.fallback_chain before it is filtered by initialize_providers
fallback_chain0 == <<"openai", "groq", "gemini", "huggingface">>

\* providers[p]['max_errors']
max_errors == [p \in ProviderNames |-> IF p = "groq" THEN 3 ELSE 5]

\* max_retries of try_provider_with_exponential_backoff
max_retries == 3

\* providers[p]['priority'] set by initialize_providers
priority == [p \in ProviderNames |->
               CASE p = "gemini" -> 1 [] p = "openai" -> 2 [] p = "groq" -> 3
                 [] OTHER -> 4]

\* QuotaManager.get_best_provider: priority_map, 'general' for unknown types
priority_map(ct) ==
  IF ct = "visual_proofs"
    THEN <<"gemini", "openai", "groq", "huggingface">>
    ELSE <<"openai", "groq", "gemini", "huggingface">>

\* ------------------------------------------------------------------- texts
NoText == [id |-> "none", len |-> 0, slen |-> 0, words |-> 0, uniq |-> 0,
           generic |-> 0, struct |-> FALSE, sentences |-> 0, maxrep |-> 0,
           prefix |-> "other", marker |-> FALSE, tmpl |-> "none"]

Txt(id, len, words, uniq, generic, struct, sentences, maxrep) ==
  [NoText EXCEPT !.id = id, !.len = len, !.slen = len, !.words = words,
                 !.uniq = uniq, !.generic = generic, !.struct = struct,
                 !.sentences = sentences, !.maxrep = maxrep]

\* texts a backend may answer with
TxtEmpty   == Txt("empty", 0, 0, 0, 0, FALSE, 0, 0)
TxtShort40 == Txt("short40", 40, 8, 8, 0, FALSE, 1, 1)
TxtShort100 == Txt("short100", 100, 20, 18, 0, FALSE, 2, 1)
TxtGood    == Txt("good", 1200, 200, 150, 0, TRUE, 12, 1)
TxtRepet   == Txt("repetitive", 1200, 200, 30, 0, TRUE, 12, 6)

BackendTexts == {TxtEmpty, TxtShort40, TxtShort100, TxtGood, TxtRepet}

\* messages of the exceptions a backend call may raise
ErrorMsgs == {"quota", "rate limit", "timeout"}

\* what one backend call does: it raises (err is the message) or answers text
Responses ==
  {[err |-> "", text |-> t] : t \in BackendTexts} \cup
  {[err |-> m, text |-> NoText] : m \in ErrorMsgs}

\* ContentValidator.MIN_CONTENT_LENGTH, 150 for an unknown component
MIN_CONTENT_LENGTH(component) ==
  CASE component = "mental_drivers" -> 500
    [] component = "visual_proofs" -> 300
    [] component = "anti_objection" -> 400
    [] component = "general" -> 200
    [] OTHER -> 150

\* the comparison of the ratios with <= instead of <
BelowUniqueRatio_le(t, component) ==
  IF t.words = 0 THEN TRUE
  ELSE IF component = "visual_proofs" THEN 10 * t.uniq <= 3 * t.words
  ELSE 4 * t.uniq <= t.words

\* unique_ratio < min_unique_ratio, as a comparison of integers
\* (0.3 for visual_proofs, 0.25 otherwise)
BelowUniqueRatio(t, component) ==
  IF t.words = 0 THEN TRUE
  ELSE IF component = "visual_proofs" THEN 10 * t.uniq < 3 * t.words
  ELSE 4 * t.uniq < t.words

\* validate_content that also refuses a text of exactly the minimum length
validate_content_le(t, component) ==
  IF t.len = 0 THEN "empty"
  ELSE IF t.slen <= MIN_CONTENT_LENGTH(component) THEN "too short"
  ELSE IF t.generic > 5 THEN "generic"
  ELSE IF BelowUniqueRatio(t, component) THEN "repetitive"
  ELSE IF ~t.struct /\ t.len > 500 THEN "unstructured"
  ELSE "valid"

\* validate_content that looks at the unique-word ratio before the generic
\* phrases
validate_content_diversity_first(t, component) ==
  IF t.len = 0 THEN "empty"
  ELSE IF t.slen < MIN_CONTENT_LENGTH(component) THEN "too short"
  ELSE IF BelowUniqueRatio(t, component) THEN "repetitive"
  ELSE IF t.generic > 5 THEN "generic"
  ELSE IF ~t.struct /\ t.len > 500 THEN "unstructured"
  ELSE "valid"

\* ContentValidator.validate_content: the reason, "valid" when it passes
validate_content(t, component) ==
  IF t.len = 0 THEN "empty"
  ELSE IF t.slen < MIN_CONTENT_LENGTH(component) THEN "too short"
  ELSE IF t.generic > 5 THEN "generic"
  ELSE IF BelowUniqueRatio(t, component) THEN "repetitive"
  ELSE IF ~t.struct /\ t.len > 500 THEN "unstructured"
  ELSE "valid"

is_valid(t, component) == validate_content(t, component) = "valid"

\* AIManager._validate_gemini_response: TRUE when judged repetitive
validate_gemini_response(t) ==
  IF t.len = 0 \/ t.slen < 100 THEN TRUE
  ELSE IF t.sentences < 5 THEN FALSE
  ELSE IF t.maxrep > 3 THEN TRUE
  ELSE IF 10 * t.maxrep > 3 * t.sentences THEN TRUE
  ELSE IF t.words < 50 THEN FALSE
  ELSE 10 * t.uniq < 3 * t.words

\* ------------------------------------------------------ emergency templates
\* values of data['segmento'] of a request: absent (the default label is
\* used) or a long run of one repeated word ('w ' * 200)
Segmentos == {"absent", "repetitive"}

Emg(id, tmpl, len, slen, words, uniq, marker) ==
  [NoText EXCEPT !.id = id, !.tmpl = tmpl, !.len = len, !.slen = slen,
                 !.words = words, !.uniq = uniq, !.struct = (len > 0),
                 !.marker = marker]

\* the four generators of _generate_enhanced_emergency_content, measured on
\* the values of segmento
generate_emergency_drivers(seg) ==
  CASE seg = "absent" -> Emg("enhanced", "mental_drivers", 1039, 1037, 119, 97, TRUE)
    [] OTHER -> Emg("enhanced", "mental_drivers", 2215, 2213, 718, 97, TRUE)

generate_emergency_proofs(seg) ==
  CASE seg = "absent" -> Emg("enhanced", "visual_proofs", 695, 693, 66, 57, TRUE)
    [] OTHER -> Emg("enhanced", "visual_proofs", 1087, 1085, 266, 58, TRUE)

generate_emergency_anti_objection(seg) ==
  Emg("enhanced", "anti_objection", 974, 972, 113, 81, TRUE)

\* what stands for the result of a call that raised
RaisedText == [NoText EXCEPT !.id = "raised"]

\* segmento.upper() raises AttributeError when data['segmento'] is None
generate_emergency_general(seg) ==
  CASE seg = "absent" -> Emg("enhanced", "general", 713, 711, 93, 66, FALSE)
    [] seg = "null" -> RaisedText
    [] OTHER -> Emg("enhanced", "general", 1497, 1495, 491, 66, FALSE)

\* AIManager._generate_enhanced_emergency_content: the four generators are
\* evaluated before the component type is looked up
generate_enhanced_emergency_content(ct, seg) ==
  IF generate_emergency_general(seg).id = "raised" THEN RaisedText
  ELSE
    CASE ct = "mental_drivers" -> generate_emergency_drivers(seg)
      [] ct = "visual_proofs" -> generate_emergency_proofs(seg)
      [] ct = "anti_objection" -> generate_emergency_anti_objection(seg)
      [] OTHER -> generate_emergency_general(seg)

\* AIManager._generate_emergency_content(ct, {'segmento': ct}): the template
\* of emergency_templates, the empty string where there is none
generate_emergency_content(ct) ==
  CASE ct = "mental_drivers" -> Emg("legacy", "mental_drivers", 582, 580, 82, 60, FALSE)
    [] ct = "visual_proofs" -> Emg("legacy", "visual_proofs", 463, 461, 65, 42, FALSE)
    [] ct = "anti_objection" -> Emg("legacy", "anti_objection", 401, 399, 58, 47, FALSE)
    [] OTHER -> Emg("legacy", "none", 0, 0, 0, 0, FALSE)

\* AIManager._generate_emergency_content(ct, data) for a context whose
\* segmento is absent, None or a long run of one repeated word
generate_emergency_content_with(ct, seg) ==
  CASE ct = "mental_drivers" ->
         Emg("legacy", ct, IF seg = "absent" THEN 570 ELSE IF seg = "null" THEN 562 ELSE 1354,
             IF seg = "absent" THEN 568 ELSE IF seg = "null" THEN 560 ELSE 1352,
             IF seg \in {"absent", "null"} THEN 82 ELSE 481, 60, FALSE)
    [] ct = "visual_proofs" ->
         Emg("legacy", ct, IF seg = "absent" THEN 458 ELSE IF seg = "null" THEN 454 ELSE 850,
             IF seg = "absent" THEN 456 ELSE IF seg = "null" THEN 452 ELSE 848,
             IF seg \in {"absent", "null"} THEN 65 ELSE 264, 42, FALSE)
    [] ct = "anti_objection" ->
         Emg("legacy", ct, IF seg = "absent" THEN 395 ELSE IF seg = "null" THEN 391 ELSE 787,
             IF seg = "absent" THEN 393 ELSE IF seg = "null" THEN 389 ELSE 785,
             IF seg \in {"absent", "null"} THEN 58 ELSE 257, 47, FALSE)
    [] OTHER -> Emg("legacy", "none", 0, 0, 0, 0, FALSE)

\* "Erro: Nenhum provedor de IA disponível."
ErrorText == [NoText EXCEPT !.id = "error", !.len = 39, !.slen = 39, !.words = 6,
                            !.uniq = 6, !.prefix = "Erro:"]

\* ------------------------------------------------------------------- state
VARIABLES
  providers,            \* names registered in AIManager.providers
  available,            \* providers[p]['available']
  error_count,          \* providers[p]['error_count']
  consecutive_failures, \* providers[p]['consecutive_failures']
  reactivate_at,        \* providers[p]['reactivate_at'], 0 when not set
  disabled_providers,   \* AIManager.disabled_providers
  requests_made,        \* provider_limits[p]['requests_made']
  last_reset,           \* provider_limits[p]['last_reset']
  now,                  \* the clock (time.time(), datetime.now())
  pc,                   \* where the running generate call stands
  via,                  \* entry point of the running call
  component_type,       \* its component_type argument
  segmento,             \* its data['segmento'] argument, "unread" until it is read
  best_provider,        \* local best_provider of generate_analysis
  fallback_order,       \* local fallback_order of generate_analysis
  order_built,          \* fallback_order has been computed
  idx,                  \* position of the for loop in fallback_order
  cur,                  \* provider_name of the running retry series
  attempt,              \* loop variable of the retry series
  content,              \* value returned by generate_analysis
  result,               \* value returned to the caller
  nreq,                 \* generate calls started so far
  series,               \* the retry series of this call: provider, attempts made
  first_kind,           \* outcome shared by the attempts of the first retry series
  last,                 \* the latest attempt of this call
  due,                  \* providers whose cooldown had elapsed when the call started
  qchecks,              \* the can_use_provider calls of the latest step
  other_failed,         \* providers with a recorded failure other than a rejection
  v_op,                 \* pure functions: the function applied, "none" before
  v_text,               \* pure functions: the text given to validate_content
  v_component,          \* pure functions: the component type given
  v_context,            \* pure functions: data['segmento'] of the context given
  v_out,                \* pure functions: what the function returned
  t_pc,                 \* threads in increment_usage: position of each
  t_provider,           \* threads in increment_usage: the provider argument
  t_value,              \* threads in increment_usage: the value read
  q_last                \* QuotaManager alone: the latest call and the state it saw

pvars == <<providers, available, error_count, consecutive_failures,
           reactivate_at, disabled_providers>>
qvars == <<requests_made, last_reset>>
rvars == <<pc, via, component_type, segmento, best_provider, fallback_order,
           order_built, idx, cur, attempt, content, result>>
hvars == <<nreq, series, first_kind, last, due, qchecks, other_failed>>
\* the inputs and outputs of the pure functions and of the QuotaManager
\* exercised alone, the threads of increment_usage
fvars == <<v_op, v_text, v_component, v_context, v_out, q_last>>
tvars == <<t_pc, t_provider, t_value>>
vars == <<pvars, qvars, now, rvars, hvars, fvars, tvars>>

NoAttempt == [p |-> "None", kind |-> "none", dis |-> FALSE, calls |-> 0]

\* the request threads of the server (run.py starts it with threaded=True)
Threads == 1..NThreads

\* component types of the generate calls explored: the two priority lists,
\* a type with and a type without a template of its own
RequestTypes == {"general", "visual_proofs", "mental_drivers"}

\* the registries initialize_providers can build (which API keys are set)
Registries == {{}, {"openai", "groq", "gemini"}, {"groq", "huggingface"}}

\* generate calls explored with a registry: one less when it holds more than
\* two providers
Calls(reg) == IF Cardinality(reg) > 2 THEN MaxRequests - 1 ELSE MaxRequests

\* ---------------------------------------------------------- QuotaManager
\* the quota state as one value
Q0 == [rm |-> requests_made, lr |-> last_reset]

\* reset_counters that zeroes the counter and leaves last_reset where it was
reset_counters_keeps_start(Q, t) ==
  [rm |-> [p \in ProviderNames |-> IF t - Q.lr[p] >= Day THEN 0 ELSE Q.rm[p]],
   lr |-> Q.lr]

\* QuotaManager.reset_counters
reset_counters(Q, t) ==
  [rm |-> [p \in ProviderNames |-> IF t - Q.lr[p] >= Day THEN 0 ELSE Q.rm[p]],
   lr |-> [p \in ProviderNames |-> IF t - Q.lr[p] >= Day THEN t ELSE Q.lr[p]]]

\* can_use_provider comparing with <= instead of <
can_use_provider_le(Q, t, p) ==
  LET R == reset_counters(Q, t) IN
  IF p \notin ProviderNames THEN FALSE ELSE R.rm[p] <= daily[p]

\* QuotaManager.can_use_provider: the returned value (the state after it is
\* reset_counters(Q, t))
can_use_provider(Q, t, p) ==
  LET R == reset_counters(Q, t) IN
  IF p \notin ProviderNames THEN FALSE ELSE R.rm[p] < daily[p]

\* QuotaManager.increment_usage
increment_usage(Q, p) ==
  IF p \in ProviderNames THEN [Q EXCEPT !.rm[p] = @ + 1] ELSE Q

\* QuotaManager.get_best_provider: position in the priority list of the
\* provider returned, 0 for None
RECURSIVE BestFrom(_, _, _, _)
BestFrom(Q, t, prio, i) ==
  IF i > Len(prio) THEN 0
  ELSE IF can_use_provider(Q, t, prio[i]) THEN i
  ELSE BestFrom(Q, t, prio, i + 1)

get_best_provider(Q, t, ct) ==
  LET i == BestFrom(Q, t, priority_map(ct), 1) IN
  IF i = 0 THEN "None" ELSE priority_map(ct)[i]

\* record of one can_use_provider call: the provider, whether its window had
\* elapsed when the call was made, requests_made before it, the value returned
QCall(Q, t, p) ==
  [p |-> p, elapsed |-> (t - Q.lr[p] >= Day), before |-> Q.rm[p],
   ret |-> can_use_provider(Q, t, p)]

\* the calls get_best_provider makes: the first one sees the state Q, the
\* later ones the state the first one has reset
BestCalls(Q, t, ct) ==
  LET prio == priority_map(ct)
      i == BestFrom(Q, t, prio, 1)
      n == IF i = 0 THEN Len(prio) ELSE i
  IN {QCall(IF k = 1 THEN Q ELSE reset_counters(Q, t), t, prio[k]) : k \in 1..n}

\* ------------------------------------------------------------- AIManager
\* the failure bookkeeping as one value
S0 == [cf |-> consecutive_failures, ec |-> error_count,
       dis |-> disabled_providers, rat |-> reactivate_at]

\* the quota indicators of _register_failure, as a test on the message
IsQuotaIndicator(msg) == msg \in {"quota", "rate limit", "too many requests", "insufficient_quota"}

\* _register_failure that counts a quota failure like any other failure
register_failure_counts_quota(S, t, p, msg) ==
  IF p \notin providers THEN S
  ELSE
    LET S1 == [S EXCEPT !.ec[p] = @ + 1, !.cf[p] = @ + 1]
    IN IF S1.cf[p] >= max_errors[p]
         THEN [S1 EXCEPT !.dis = @ \cup {p}]
         ELSE S1

\* _register_failure whose quota branch counts the failure as well
register_failure_quota_counts(S, t, p, msg) ==
  IF p \notin providers THEN S
  ELSE
    LET S1 == IF IsQuotaIndicator(msg)
                THEN [S EXCEPT !.dis = @ \cup {p}, !.rat[p] = t + QuotaCooldown,
                               !.ec[p] = @ + 1, !.cf[p] = @ + 1]
                ELSE [S EXCEPT !.ec[p] = @ + 1, !.cf[p] = @ + 1]
    IN IF S1.cf[p] >= max_errors[p]
         THEN [S1 EXCEPT !.dis = @ \cup {p}]
         ELSE S1

\* AIManager._register_failure
register_failure(S, t, p, msg) ==
  IF p \notin providers THEN S
  ELSE
    LET S1 == IF IsQuotaIndicator(msg)
                THEN [S EXCEPT !.dis = @ \cup {p}, !.rat[p] = t + QuotaCooldown]
                ELSE [S EXCEPT !.ec[p] = @ + 1, !.cf[p] = @ + 1]
    IN IF S1.cf[p] >= max_errors[p]
         THEN [S1 EXCEPT !.dis = @ \cup {p}]
         ELSE S1

\* _register_success that forgets to reset consecutive_failures
register_success_keeps_failures(S, p) ==
  IF p \notin providers THEN S
  ELSE [S EXCEPT !.dis = @ \ {p}]

\* _register_success that resets error_count as well
register_success_resets_errors(S, p) ==
  IF p \notin providers THEN S
  ELSE [S EXCEPT !.cf[p] = 0, !.ec[p] = 0, !.dis = @ \ {p}]

\* AIManager._register_success
register_success(S, p) ==
  IF p \notin providers THEN S
  ELSE [S EXCEPT !.cf[p] = 0, !.dis = @ \ {p}]

\* the reactivation test with > instead of >=
ReactivationDueStrict(S, t, p) == S.rat[p] > 0 /\ t > S.rat[p]

\* the test of _check_and_reactivate_providers on one disabled provider
ReactivationDue(S, t, p) == S.rat[p] > 0 /\ t >= S.rat[p]

\* _check_and_reactivate_providers that reactivates every disabled provider
\* and clears the failures of all
check_and_reactivate_all(S, t) ==
  [cf |-> [p \in ProviderNames |-> 0],
   ec |-> S.ec,
   dis |-> {},
   rat |-> [p \in ProviderNames |-> 0]]

\* AIManager._check_and_reactivate_providers
check_and_reactivate_providers(S, t) ==
  LET R == {p \in S.dis : ReactivationDue(S, t, p)} IN
  [cf |-> [p \in ProviderNames |-> IF p \in R THEN 0 ELSE S.cf[p]],
   ec |-> S.ec,
   dis |-> S.dis \ R,
   rat |-> [p \in ProviderNames |-> IF p \in R THEN 0 ELSE S.rat[p]]]

\* AIManager.fallback_chain after initialize_providers
RECURSIVE FilterSeq(_, _)
FilterSeq(s, keep) ==
  IF s = <<>> THEN <<>>
  ELSE IF Head(s) \in keep THEN <<Head(s)>> \o FilterSeq(Tail(s), keep)
  ELSE FilterSeq(Tail(s), keep)

fallback_chain == FilterSeq(fallback_chain0, {p \in providers : available[p]})

\* stable insertion of x into a sequence sorted by consecutive failures
RECURSIVE InsertByFailures(_, _, _)
InsertByFailures(S, s, x) ==
  IF s = <<>> THEN <<x>>
  ELSE IF S.cf[x] < S.cf[Head(s)] THEN <<x>> \o s
  ELSE <<Head(s)>> \o InsertByFailures(S, Tail(s), x)

RECURSIVE SortByFailures(_, _)
SortByFailures(S, s) ==
  IF s = <<>> THEN <<>>
  ELSE InsertByFailures(S, SortByFailures(S, SubSeq(s, 1, Len(s) - 1)), s[Len(s)])

\* AIManager._get_intelligent_fallback_order
get_intelligent_fallback_order(S) ==
  SortByFailures(S, FilterSeq(fallback_chain,
                    {p \in providers : available[p] /\ p \notin S.dis}))

\* outcome of one call of _try_provider_with_validation
Outcome(S, Q, res, kind, calls, raised) ==
  [S |-> S, Q |-> Q, res |-> res, kind |-> kind, calls |-> calls, raised |-> raised]

\* _try_provider_with_validation from the length test on: too short, rejected
\* by the validator, or registered as a success and returned
validate_result(S, Q, t, p, ct, txt, calls) ==
  IF txt.len = 0 \/ txt.slen < 50
    THEN Outcome(S, Q, NoText, "invalid_response", calls, "")
  ELSE IF ~is_valid(txt, ct)
    THEN Outcome(register_failure(S, t, p, "Conteudo rejeitado"), Q, NoText,
                 "validation_rejected", calls, "")
  ELSE Outcome(register_success(S, p), Q, txt, "success", calls, "")

\* AIManager._try_provider_with_validation; r1 and r2 are what the first and
\* (Gemini only) the second call of the client do
try_provider_with_validation(S, Q, t, p, ct, r1, r2) ==
  IF p \notin providers
    THEN Outcome(S, Q, NoText, "no_client", 0, "")
  ELSE IF p = "huggingface"
    \* provider_info['model'] raises KeyError before the try block
    THEN Outcome(S, Q, NoText, "raised", 0, "'model'")
  ELSE
    LET Q1 == increment_usage(Q, p) IN
    IF r1.err # ""
      THEN Outcome(register_failure(S, t, p, r1.err), Q1, NoText, r1.err, 1, "")
    ELSE IF p = "gemini" /\ r1.text.len > 0 /\ validate_gemini_response(r1.text)
      THEN IF r2.err # ""
             THEN Outcome(register_failure(S, t, p, r2.err), Q1, NoText, r2.err, 2, "")
           ELSE IF r2.text.len > 0
             THEN IF validate_gemini_response(r2.text)
                    THEN Outcome(register_failure(S, t, p, "Conteudo persistentemente repetitivo"),
                                 Q1, NoText, "gemini_repetitive", 2, "")
                    ELSE validate_result(S, Q1, t, p, ct, r2.text, 2)
           ELSE validate_result(S, Q1, t, p, ct, r1.text, 2)
    ELSE validate_result(S, Q1, t, p, ct, r1.text, 1)

\* AIManager.get_provider_status: quota_daily_remaining of a provider
quota_daily_remaining(p) == daily[p] - requests_made[p]

\* outcomes of an attempt that record no failure, or record the rejection of
\* the text by validate_content
RejectionKinds == {"success", "no_client", "invalid_response", "validation_rejected"}

\* the rate-limit test of _try_provider_with_exponential_backoff on the
\* message of an exception that reached it
IsRateLimitError(msg) == msg \in {"429", "rate limit", "too many requests"}

\* generate_analysis, the loop over fallback_order: position of the first
\* provider from i on that is not skipped, 0 when the loop runs out
RECURSIVE NextCandidate(_, _, _, _, _, _)
NextCandidate(order, i, best, S, Q, t) ==
  IF i > Len(order) THEN 0
  ELSE IF order[i] = best \/ order[i] \in S.dis \/ ~can_use_provider(Q, t, order[i])
    THEN NextCandidate(order, i + 1, best, S, Q, t)
  ELSE i

\* positions of that loop at which can_use_provider is called
QuotaChecked(order, i, j, best, S) ==
  {k \in i..(IF j = 0 THEN Len(order) ELSE j) : order[k] # best /\ order[k] \notin S.dis}

\* generate_content whose final validation is inverted
final_content_inverted(c, ct) ==
  IF c.len > 0 /\ c.prefix \notin {"Erro:", "CONTEUDO DE EMERGENCIA:"}
    THEN IF ~is_valid(c, ct) THEN c ELSE generate_emergency_content(ct)
  ELSE IF c.len = 0 THEN generate_emergency_content(ct)
  ELSE c

\* generate_content whose final validation is given the component type in
\* place of the text, and so never passes
final_content_validates_type(c, ct) ==
  IF c.len > 0 /\ c.prefix \notin {"Erro:", "CONTEUDO DE EMERGENCIA:"}
    THEN generate_emergency_content(ct)
  ELSE IF c.len = 0 THEN generate_emergency_content(ct)
  ELSE c

\* AIManager.generate_content after generate_analysis has returned
final_content(c, ct) ==
  IF c.len > 0 /\ c.prefix \notin {"Erro:", "CONTEUDO DE EMERGENCIA:"}
    THEN IF is_valid(c, ct) THEN c ELSE generate_emergency_content(ct)
  ELSE IF c.len = 0 THEN generate_emergency_content(ct)
  ELSE c

\* -------------------------------------------------------------------- Init
ManagerInit ==
  /\ providers \in Registries
  /\ available = [p \in ProviderNames |-> TRUE]
  /\ error_count = [p \in ProviderNames |-> 0]
  /\ consecutive_failures = [p \in ProviderNames |-> 0]
  /\ reactivate_at = [p \in ProviderNames |-> 0]
  /\ disabled_providers = {}
  /\ requests_made = [p \in ProviderNames |-> 0]
  /\ last_reset = [p \in ProviderNames |-> 0]
  /\ now = 0
  /\ pc = "idle"
  /\ via = "none"
  /\ component_type = "general"
  /\ segmento = "unread"
  /\ best_provider = "None"
  /\ fallback_order = <<>>
  /\ order_built = FALSE
  /\ idx = 0
  /\ cur = "None"
  /\ attempt = 0
  /\ content = NoText
  /\ result = NoText
  /\ nreq = 0
  /\ series = <<>>
  /\ first_kind = "none"
  /\ last = NoAttempt
  /\ due = {}
  /\ qchecks = {}
  /\ other_failed = {}

\* no pure function applied, no thread inside increment_usage
NoOut == [reason |-> "none", text |-> NoText]

\* no call of the QuotaManager made yet
NoQuotaCall ==
  [op |-> "none", p |-> "None", t |-> 0, ret |-> FALSE,
   rm |-> [p \in ProviderNames |-> 0], lr |-> [p \in ProviderNames |-> 0]]

FunctionsIdle ==
  /\ v_op = "none"
  /\ v_text = NoText
  /\ v_component = "general"
  /\ v_context = "absent"
  /\ v_out = NoOut
  /\ q_last = NoQuotaCall

ThreadsIdle ==
  /\ t_pc = [t \in Threads |-> "idle"]
  /\ t_provider = [t \in Threads |-> "None"]
  /\ t_value = [t \in Threads |-> 0]

Init == ManagerInit /\ FunctionsIdle /\ ThreadsIdle

SetS(S) ==
  /\ consecutive_failures' = S.cf
  /\ error_count' = S.ec
  /\ disabled_providers' = S.dis
  /\ reactivate_at' = S.rat

SetQ(Q) ==
  /\ requests_made' = Q.rm
  /\ last_reset' = Q.lr

\* ----------------------------------------------------------------- actions
\* generate_analysis up to the first retry series: reactivation check, best
\* provider for the component type
StartAnalysis(v, ct) ==
  LET S1 == check_and_reactivate_providers(S0, now)
      best == get_best_provider(Q0, now, ct)
      go == best # "None" /\ best \notin S1.dis
  IN /\ SetS(S1)
     /\ SetQ(reset_counters(Q0, now))
     /\ via' = v
     /\ component_type' = ct
     /\ segmento' = "unread"
     /\ best_provider' = best
     /\ fallback_order' = <<>>
     /\ order_built' = FALSE
     /\ idx' = 0
     /\ cur' = IF go THEN best ELSE "None"
     /\ attempt' = 0
     /\ pc' = IF go THEN "attempt" ELSE "select"
     /\ content' = NoText
     /\ result' = NoText
     /\ nreq' = nreq + 1
     /\ series' = IF go THEN <<[p |-> best, n |-> 0]>> ELSE <<>>
     /\ first_kind' = "none"
     /\ last' = NoAttempt
     /\ due' = {p \in disabled_providers : reactivate_at[p] # 0 /\ reactivate_at[p] <= now}
     /\ qchecks' = BestCalls(Q0, now, ct)
     /\ UNCHANGED <<providers, available, now, other_failed, fvars, tvars>>

\* AIManager.generate_analysis called by a route
generate_analysis(ct) ==
  /\ pc \in {"idle", "done"}
  /\ nreq < Calls(providers)
  /\ StartAnalysis("analysis", ct)

\* AIManager.generate_content: the availability test, then generate_analysis
generate_content(ct) ==
  /\ pc \in {"idle", "done"}
  /\ nreq < Calls(providers)
  /\ IF \E p \in providers : available[p]
       THEN StartAnalysis("content", ct)
       ELSE /\ result' = ErrorText
            /\ pc' = "done"
            /\ via' = "content"
            /\ component_type' = ct
            /\ segmento' = "unread"
            /\ best_provider' = "None"
            /\ fallback_order' = <<>>
            /\ order_built' = FALSE
            /\ idx' = 0
            /\ cur' = "None"
            /\ attempt' = 0
            /\ content' = NoText
            /\ nreq' = nreq + 1
            /\ series' = <<>>
            /\ first_kind' = "none"
            /\ last' = NoAttempt
            /\ due' = {}
            /\ qchecks' = {}
            /\ UNCHANGED <<pvars, qvars, now, other_failed, fvars, tvars>>

\* the call returns c from generate_analysis: generate_analysis hands it to
\* its caller, generate_content hands on what its final validation leaves;
\* the locals of the call are dropped
Return(c) ==
  /\ content' = c
  /\ result' = IF via = "content" THEN final_content(c, component_type) ELSE c
  /\ pc' = "done"
  /\ best_provider' = "None"
  /\ fallback_order' = <<>>
  /\ order_built' = FALSE
  /\ idx' = 0
  /\ cur' = "None"
  /\ attempt' = 0

\* what a second call of the client may do, where the code makes one (Gemini,
\* after a first text it judges repetitive)
SecondResponses(p, r1) ==
  IF p = "gemini" /\ r1.err = "" /\ r1.text.len > 0 /\ validate_gemini_response(r1.text)
    THEN Responses
    ELSE {r1}

\* one iteration of the loop of _try_provider_with_exponential_backoff
TryProvider ==
  /\ pc = "attempt"
  /\ \E r1 \in Responses : \E r2 \in SecondResponses(cur, r1) :
       LET o == try_provider_with_validation(S0, Q0, now, cur, component_type, r1, r2)
           ratelimit == o.raised # "" /\ IsRateLimitError(o.raised)
           break == o.raised # "" /\ ~ratelimit
           wait == ratelimit /\ attempt < max_retries - 1
           S2 == IF break THEN register_failure(o.S, now, cur, o.raised) ELSE o.S
           over == break \/ attempt >= max_retries - 1
           n == Len(series)
       IN /\ SetS(S2)
          /\ SetQ(o.Q)
          /\ now' = IF wait THEN now + 2 * (2 ^ attempt) ELSE now
          /\ last' = [p |-> cur, kind |-> o.kind, dis |-> cur \in disabled_providers,
                      calls |-> o.calls]
          /\ series' = [series EXCEPT ![n].n = @ + 1]
          /\ first_kind' = IF n # 1 THEN first_kind
                           ELSE IF first_kind \in {"none", o.kind} THEN o.kind
                           ELSE "mixed"
          /\ other_failed' = IF cur \in providers /\ o.kind \notin RejectionKinds
                               THEN other_failed \cup {cur}
                               ELSE other_failed
          /\ IF o.res.len > 0
               THEN Return(o.res)
               ELSE /\ pc' = IF over THEN "select" ELSE "attempt"
                    /\ attempt' = IF over THEN attempt ELSE attempt + 1
                    /\ UNCHANGED <<content, result, best_provider, fallback_order,
                                   order_built, idx, cur>>
  /\ qchecks' = {}
  /\ UNCHANGED <<providers, available, via, component_type, segmento, nreq, due,
                 fvars, tvars>>

\* the provider's client is called by an attempt: the attempt on huggingface
\* raises KeyError before it
ReachesClient(p) == p \in providers /\ p # "huggingface"

\* the client call is given a timeout: requests.post(..., timeout=60) alone
HasTimeout(p) == p = "huggingface"

\* the client call of an attempt does not return and no timeout ends it: the
\* usage is counted, the thread stays in the call
Hang ==
  /\ pc = "attempt"
  /\ ReachesClient(cur)
  /\ ~HasTimeout(cur)
  /\ SetQ(increment_usage(Q0, cur))
  /\ pc' = "blocked"
  /\ last' = [p |-> cur, kind |-> "hang", dis |-> cur \in disabled_providers, calls |-> 1]
  /\ series' = [series EXCEPT ![Len(series)].n = @ + 1]
  /\ first_kind' = IF Len(series) # 1 THEN first_kind
                   ELSE IF first_kind \in {"none", "hang"} THEN "hang"
                   ELSE "mixed"
  /\ qchecks' = {}
  /\ UNCHANGED <<pvars, now, via, component_type, segmento, best_provider,
                 fallback_order, order_built, idx, cur, attempt, content, result,
                 nreq, due, other_failed, fvars, tvars>>

\* generate_analysis after a retry series gave nothing: build fallback_order
\* when first needed, go to the next provider that is not skipped, or return
\* the emergency template (which reads data['segmento'])
NextProvider ==
  /\ pc = "select"
  /\ LET order == IF order_built THEN fallback_order ELSE get_intelligent_fallback_order(S0)
         from == IF order_built THEN idx + 1 ELSE 1
         j == NextCandidate(order, from, best_provider, S0, Q0, now)
         checked == QuotaChecked(order, from, j, best_provider, S0)
         first == CHOOSE k \in checked : \A m \in checked : k <= m
     IN /\ SetQ(IF checked = {} THEN Q0 ELSE reset_counters(Q0, now))
        /\ qchecks' = {QCall(IF k = first THEN Q0 ELSE reset_counters(Q0, now), now, order[k]) :
                          k \in checked}
        /\ IF j # 0
             THEN /\ fallback_order' = order
                  /\ order_built' = TRUE
                  /\ idx' = j
                  /\ cur' = order[j]
                  /\ attempt' = 0
                  /\ pc' = "attempt"
                  /\ series' = Append(series, [p |-> order[j], n |-> 0])
                  /\ UNCHANGED <<content, result, best_provider, segmento>>
             ELSE /\ \E seg \in Segmentos :
                       /\ Return(generate_enhanced_emergency_content(component_type, seg))
                       /\ segmento' = seg
                  /\ series' = series
  /\ UNCHANGED <<pvars, now, via, component_type, nreq, first_kind, last, due,
                 other_failed, fvars, tvars>>

\* clock advances taken so far
TicksTaken == (now \div Day) + ((now % Day) \div QuotaCooldown)

\* time passes between two generate calls
Tick(d) ==
  /\ pc = "done"
  /\ nreq < Calls(providers)
  /\ TicksTaken < MaxTicks
  /\ now' = now + d
  /\ qchecks' = {}
  /\ UNCHANGED <<pvars, qvars, rvars, nreq, series, first_kind, last, due,
                 other_failed, fvars, tvars>>

Next ==
  \/ \E ct \in RequestTypes : generate_analysis(ct)
  \/ \E ct \in RequestTypes : generate_content(ct)
  \/ TryProvider
  \/ Hang
  \/ NextProvider
  \/ \E d \in {QuotaCooldown, Day} : Tick(d)

Spec == Init /\ [][Next]_vars

\* ---------------------------------------------------------- pure functions
\* the manager's own state, left alone by the pure functions
mvars == <<pvars, qvars, now, rvars, hvars>>

\* values of data['segmento'] of a context: absent, None, a repeated word
Contexts == Segmentos \cup {"null"}

\* stripped lengths next to the minimum of every component type
BoundaryLengths ==
  UNION {{MIN_CONTENT_LENGTH(c) - 1, MIN_CONTENT_LENGTH(c), MIN_CONTENT_LENGTH(c) + 1} :
           c \in ComponentTypes}

\* word counts of the texts: 40 words, unique ratios 0.15 to 0.35
WordCounts == {[words |-> 40, uniq |-> u] : u \in {6, 9, 10, 11, 12, 14}}

\* the texts given to validate_content: six generic phrases need ten
\* different words
ValidatorTexts ==
  {t \in {[NoText EXCEPT !.id = "input", !.len = l + pad, !.slen = l,
                         !.words = w.words, !.uniq = w.uniq, !.generic = g,
                         !.struct = st, !.sentences = 1, !.maxrep = 1] :
            l \in BoundaryLengths, pad \in {0, MaxPad}, st \in BOOLEAN,
            w \in WordCounts, g \in {5, 6}} :
     t.generic > 5 => t.uniq >= 10}

FunctionsInit ==
  /\ ManagerInit
  /\ providers = {}
  /\ ThreadsIdle
  /\ v_op = "none"
  /\ v_out = NoOut
  /\ q_last = NoQuotaCall
  /\ v_component \in ComponentTypes
  /\ \/ v_text \in ValidatorTexts /\ v_context = "absent"
     \/ v_text = NoText /\ v_context \in Contexts

\* ContentValidator.validate_content applied to the text
Validate ==
  /\ v_op = "none"
  /\ v_op' = "validate"
  /\ v_out' = [reason |-> validate_content(v_text, v_component), text |-> v_text]
  /\ UNCHANGED <<mvars, tvars, v_text, v_component, v_context, q_last>>

\* what a call that returned r, or raised, hands to its caller
Returned(r) == [reason |-> IF r.id = "raised" THEN "raised" ELSE "returned", text |-> r]

\* AIManager._generate_enhanced_emergency_content applied to the context
RenderEnhanced ==
  /\ v_op = "none"
  /\ v_op' = "render_enhanced"
  /\ v_out' = Returned(generate_enhanced_emergency_content(v_component, v_context))
  /\ UNCHANGED <<mvars, tvars, v_text, v_component, v_context, q_last>>

\* AIManager._generate_emergency_content applied to the context
RenderLegacy ==
  /\ v_op = "none"
  /\ v_op' = "render_legacy"
  /\ v_out' = Returned(generate_emergency_content_with(v_component, v_context))
  /\ UNCHANGED <<mvars, tvars, v_text, v_component, v_context, q_last>>

FunctionsNext == Validate \/ RenderEnhanced \/ RenderLegacy

SpecFunctions == FunctionsInit /\ [][FunctionsNext]_vars

\* ------------------------------------------------------ concurrent requests
\* the request threads share the one AIManager of the module and its
\* QuotaManager; increment_usage takes no lock, and its statement
\* requests_made += 1 reads the counter and stores the sum in two steps

\* a thread enters increment_usage(p) and reads requests_made of p
LoadUsage(t) ==
  /\ t_pc[t] = "idle"
  /\ \E p \in providers :
       /\ p \in ProviderNames
       /\ t_provider' = [t_provider EXCEPT ![t] = p]
       /\ t_value' = [t_value EXCEPT ![t] = requests_made[p]]
  /\ t_pc' = [t_pc EXCEPT ![t] = "loaded"]
  /\ UNCHANGED <<mvars, fvars>>

\* the thread stores the value it read plus one
StoreUsage(t) ==
  /\ t_pc[t] = "loaded"
  /\ requests_made' = [requests_made EXCEPT ![t_provider[t]] = t_value[t] + 1]
  /\ t_pc' = [t_pc EXCEPT ![t] = "done"]
  /\ UNCHANGED <<pvars, last_reset, now, rvars, hvars, fvars, t_provider, t_value>>

ThreadsInit ==
  /\ ManagerInit
  /\ providers = {"openai", "groq", "gemini"}
  /\ FunctionsIdle
  /\ ThreadsIdle

ThreadsNext == \E t \in Threads : LoadUsage(t) \/ StoreUsage(t)

SpecThreads == ThreadsInit /\ [][ThreadsNext]_vars

\* ------------------------------------------------------ QuotaManager alone
\* the calls of the QuotaManager applied in any order while time passes, as
\* they reach it from generate_analysis (can_use_provider when a candidate is
\* chosen, increment_usage at each attempt, the backend calls in between
\* taking time)

\* the arguments given: the four providers and a name that is not one
QuotaArgs == ProviderNames \cup {"unknown"}

\* what a call leaves in q_last: its argument, the time, the state it saw
QuotaCall(op, p, ret) ==
  [op |-> op, p |-> p, t |-> now, ret |-> ret, rm |-> requests_made, lr |-> last_reset]

\* QuotaManager.can_use_provider(p)
QuotaCheck(p) ==
  /\ SetQ(reset_counters(Q0, now))
  /\ q_last' = QuotaCall("can_use_provider", p, can_use_provider(Q0, now, p))
  /\ UNCHANGED <<pvars, now, rvars, hvars, tvars, v_op, v_text, v_component,
                 v_context, v_out>>

\* QuotaManager.increment_usage(p)
QuotaConsume(p) ==
  /\ p \in ProviderNames => requests_made[p] < MaxUsage
  /\ SetQ(increment_usage(Q0, p))
  /\ q_last' = QuotaCall("increment_usage", p, FALSE)
  /\ UNCHANGED <<pvars, now, rvars, hvars, tvars, v_op, v_text, v_component,
                 v_context, v_out>>

\* half a day passes
QuotaTick ==
  /\ now < MaxHalfDays * (Day \div 2)
  /\ now' = now + (Day \div 2)
  /\ UNCHANGED <<pvars, qvars, rvars, hvars, fvars, tvars>>

QuotaInit ==
  /\ ManagerInit
  /\ providers = {}
  /\ FunctionsIdle
  /\ ThreadsIdle

QuotaNext ==
  \/ \E p \in QuotaArgs : QuotaCheck(p)
  \/ \E p \in QuotaArgs : QuotaConsume(p)
  \/ QuotaTick

SpecQuota == QuotaInit /\ [][QuotaNext]_vars

\* ---------------------------------------------- concurrent attempt endings
\* request threads that end an attempt on the same provider at the same
\* time: _try_provider_with_validation registers the failure of an attempt
\* that raised and the success of an attempt whose text passed validation;
\* _register_success tests provider_name in disabled_providers and then
\* calls remove, two steps with no lock around them

\* the providers the threads attempt
AttemptedProviders == {"openai", "groq"}

\* the attempt of thread t on p raises a quota error (lines 613-615); the
\* retry loop will attempt p again
RaiseQuota(t, p) ==
  /\ t_pc[t] = "idle"
  /\ SetS(register_failure(S0, now, p, "quota"))
  /\ t_pc' = [t_pc EXCEPT ![t] = "retry"]
  /\ t_provider' = [t_provider EXCEPT ![t] = p]
  /\ UNCHANGED <<providers, available, qvars, now, rvars, hvars, fvars, t_value>>

\* the text of the attempt of thread t on p passed validation:
\* _register_success starts and resets consecutive_failures (lines 609, 347-349)
AcceptText(t, p) ==
  /\ \/ t_pc[t] = "idle"
     \/ t_pc[t] = "retry" /\ t_provider[t] = p
  /\ consecutive_failures' = [consecutive_failures EXCEPT ![p] = 0]
  /\ t_pc' = [t_pc EXCEPT ![t] = "in_success"]
  /\ t_provider' = [t_provider EXCEPT ![t] = p]
  /\ UNCHANGED <<providers, available, error_count, reactivate_at, disabled_providers,
                 qvars, now, rvars, hvars, fvars, t_value>>

\* line 350: the membership test, 1 when the provider is disabled
TestDisabled(t) ==
  /\ t_pc[t] = "in_success"
  /\ t_value' = [t_value EXCEPT ![t] = IF t_provider[t] \in disabled_providers THEN 1 ELSE 0]
  /\ t_pc' = [t_pc EXCEPT ![t] = "tested"]
  /\ UNCHANGED <<mvars, fvars, t_provider>>

\* line 351 and what follows: set.remove raises KeyError when the provider is
\* no longer in the set, the except clause of _try_provider_with_validation
\* registers a failure and the attempt returns None (lines 613-616);
\* otherwise the attempt returns its text (line 611)
RemoveDisabled(t) ==
  /\ t_pc[t] = "tested"
  /\ IF t_value[t] = 0
       THEN /\ t_pc' = [t_pc EXCEPT ![t] = "returned"]
            /\ UNCHANGED pvars
       ELSE IF t_provider[t] \in disabled_providers
         THEN /\ disabled_providers' = disabled_providers \ {t_provider[t]}
              /\ t_pc' = [t_pc EXCEPT ![t] = "returned"]
              /\ UNCHANGED <<providers, available, error_count, consecutive_failures,
                             reactivate_at>>
         ELSE /\ SetS(register_failure(S0, now, t_provider[t], "KeyError"))
              /\ t_pc' = [t_pc EXCEPT ![t] = "failure_recorded"]
              /\ UNCHANGED <<providers, available>>
  /\ UNCHANGED <<qvars, now, rvars, hvars, fvars, t_provider, t_value>>

\* another request starts: generate_analysis runs the reactivation check
ReactivationCheck ==
  /\ SetS(check_and_reactivate_providers(S0, now))
  /\ S0 # check_and_reactivate_providers(S0, now)
  /\ UNCHANGED <<providers, available, qvars, now, rvars, hvars, fvars, tvars>>

\* the quota cooldown passes
CooldownPasses ==
  /\ now = 0
  /\ now' = QuotaCooldown
  /\ UNCHANGED <<pvars, qvars, rvars, hvars, fvars, tvars>>

EndingsNext ==
  \/ \E t \in Threads : \E p \in AttemptedProviders : RaiseQuota(t, p) \/ AcceptText(t, p)
  \/ \E t \in Threads : TestDisabled(t) \/ RemoveDisabled(t)
  \/ ReactivationCheck
  \/ CooldownPasses

SpecEndings == ThreadsInit /\ [][EndingsNext]_vars

\* ------------------------------------------------------------------ claims
\* attempts made by the running call
RECURSIVE SumAttempts(_)
SumAttempts(s) == IF s = <<>> THEN 0 ELSE Head(s).n + SumAttempts(Tail(s))

\* the emergency template a component type is served with
TemplateOf(ct) ==
  IF ct \in {"mental_drivers", "visual_proofs", "anti_objection"} THEN ct ELSE "general"

\* the call has returned without any attempt having been accepted
ReturnedExhausted == pc = "done" /\ last.kind # "success"

\* the call has returned the text a backend attempt produced
ReturnedBackendText ==
  pc = "done" /\ last.kind = "success" /\ result.len > 0 /\ result = content

\* C1: every generate call returns a non-empty text, whatever the registry
\* state and the backend outcomes
C1_NonEmptyResult == pc = "done" => result.len > 0

\* C2: when no attempt is accepted the caller receives the emergency template
\* of the requested component type, marked emergency_mode = true, and never
\* an error value
C2_ExhaustionGivesEmergency ==
  ReturnedExhausted =>
    /\ result.id = "enhanced"
    /\ result.tmpl = TemplateOf(component_type)
    /\ result.marker

\* C3: no backend invocation is issued to a backend that is disabled when it
\* is invoked
C3_NoInvocationOfDisabled == ~(last.calls > 0 /\ last.dis)

\* C4: a backend whose consecutive_failures reached max_errors is disabled and
\* stays disabled until the clock reaches its reactivate_at; no step enables
\* it earlier
C4_DisabledUntilCooldown ==
  [][\A p \in providers :
        (consecutive_failures[p] >= max_errors[p] /\ p \in disabled_providers)
          => \/ p \in disabled_providers'
             \/ (reactivate_at[p] > 0 /\ now' >= reactivate_at[p])]_vars

\* C5: when a call returns the text of a successful attempt on backend B,
\* consecutive_failures of B is 0
C5_SuccessResetsFailures ==
  ReturnedBackendText => consecutive_failures[last.p] = 0

\* a call returned backend text of a provider that had failed twice in a row
\* just before its accepted attempt
C5_Witness ==
  /\ ReturnedBackendText
  /\ nreq = 1
  /\ error_count[last.p] >= 2
  /\ consecutive_failures[last.p] = 0

\* positions of fallback_order
InOrder(p) == \E k \in 1..Len(fallback_order) : fallback_order[k] = p

\* C6: a backend in quota cooldown whose reactivate_at has been reached when a
\* generate call starts is enabled by that call's reactivation check before the
\* candidates are chosen, and is a candidate of that call
C6_ReactivatedBeforeCandidates ==
  /\ (pc \in {"attempt", "select"} /\ last = NoAttempt)
        => \A p \in due : p \notin disabled_providers /\ consecutive_failures[p] = 0
  /\ (pc = "attempt" /\ order_built)
        => \A p \in due : p = series[1].p \/ InOrder(p)

\* a call that started when the cooldown of a backend had just elapsed is
\* attempting that backend
C6_Witness ==
  /\ pc = "attempt"
  /\ cur \in due
  /\ cur \in providers
  /\ cur \notin disabled_providers

\* C7: requests_made never exceeds the limit of the window
C7_RequestsWithinLimit == \A p \in ProviderNames : requests_made[p] <= daily[p]

ScenarioA ==
  /\ pc = "done"
  /\ Len(series) >= 2
  /\ series[1].n = 3
  /\ first_kind = "rate limit"
  /\ series[2].n = 1
  /\ last.kind = "success"

\* C9: in scenario A the result is the text of the second candidate and 4
\* attempts were made: 3 on the first candidate, 1 on the second, none on a
\* third
C9_ScenarioA ==
  ScenarioA =>
    /\ last.p = series[2].p
    /\ result = content
    /\ result \in BackendTexts
    /\ Len(series) = 2
    /\ SumAttempts(series) = 4

\* scenario A with three registered backends
C9_Witness ==
  /\ ScenarioA
  /\ Cardinality(providers) = 3
  /\ series[1].p \in providers
  /\ via = "content"
  /\ SumAttempts(series) = 4

\* C10: after a response of a backend was rejected for its content (too short,
\* or refused by the validator) the next attempt of the call is not on that
\* backend
C10_NoRetryAfterRejection ==
  [][(pc = "attempt" /\ series' # series
        /\ last.kind \in {"validation_rejected", "invalid_response"})
       => cur # last.p]_vars

\* C11: after an attempt on a backend failed with a quota error the backend is
\* disabled and the next attempt of the call is not on that backend
C11_NoRetryAfterQuota ==
  [][(pc = "attempt" /\ series' # series /\ last.kind = "quota")
       => (cur # last.p /\ last.p \in disabled_providers)]_vars

\* C12: a backend whose recorded failures are all rejections of its text by
\* the validator is not disabled
C12_RejectionsNeverDisable ==
  \A p \in providers :
    (error_count[p] > 0 /\ p \notin other_failed) => p \notin disabled_providers

\* a generate call has just run its reactivation check, a day or more after
\* every earlier failure
StartedAfterCooldown ==
  /\ pc \in {"attempt", "select"}
  /\ last = NoAttempt
  /\ nreq > 1
  /\ now >= Day

\* C18: a backend disabled because consecutive_failures reached max_errors is
\* available again, with consecutive_failures = 0, after the reactivation
\* check of a call that starts once its cooldown has passed
C18_ThresholdDisableEnds ==
  StartedAfterCooldown =>
    \A p \in providers :
      consecutive_failures[p] >= max_errors[p] => p \notin disabled_providers

\* C19: a backend in quota cooldown (disabled, reactivate_at not reached) is
\* not enabled by a step that leaves the clock before reactivate_at, a
\* recorded success included
C19_SuccessKeepsQuotaCooldown ==
  [][\A p \in providers :
        (p \in disabled_providers /\ reactivate_at[p] > now')
          => p \in disabled_providers']_vars

\* C20: a 'rate limit' failure of an enabled backend adds one to
\* consecutive_failures, and leaves the backend enabled when the count stays
\* below max_errors
C20_RateLimitedCountsOneFailure ==
  [][(pc = "attempt" /\ series' # series /\ last'.kind = "rate limit"
        /\ cur \in providers /\ cur \notin disabled_providers)
       => /\ consecutive_failures'[cur] = consecutive_failures[cur] + 1
          /\ (consecutive_failures'[cur] < max_errors[cur]
                => cur \notin disabled_providers')]_vars

\* C17: no generate call stays inside a client call that does not return: a
\* timeout ends the attempt
C17_AttemptEndsByTimeout == pc # "blocked"

\* the minimum length and the minimum unique-word ratio (in hundredths) the
\* claims give for a component type
ClaimedMinLength(ct) ==
  CASE ct = "mental_drivers" -> 500
    [] ct = "visual_proofs" -> 300
    [] ct = "anti_objection" -> 400
    [] ct = "general" -> 200
    [] OTHER -> MIN_CONTENT_LENGTH(ct)

ClaimedMinRatio(ct) == IF ct = "visual_proofs" THEN 30 ELSE 25

\* the generic-phrase, lexical-diversity and structure checks pass
OtherChecksPass(t, ct) ==
  /\ t.generic <= 5
  /\ 100 * t.uniq >= ClaimedMinRatio(ct) * t.words
  /\ (t.struct \/ t.len <= 500)

\* C14 as stated: validate_content rejects every text shorter than the
\* minimum of the component type and accepts every text of at least that
\* length when the other checks pass
C14_LengthRule ==
  v_op = "validate" =>
    /\ v_text.len < ClaimedMinLength(v_component) => v_out.reason # "valid"
    /\ (v_text.len >= ClaimedMinLength(v_component) /\ OtherChecksPass(v_text, v_component))
         => v_out.reason = "valid"

\* C14 amended: the length compared with the minimum is the length of the
\* text without its leading and trailing whitespace
C14_StrippedLengthRule ==
  v_op = "validate" =>
    /\ v_text.slen < ClaimedMinLength(v_component) => v_out.reason # "valid"
    /\ (v_text.slen >= ClaimedMinLength(v_component) /\ OtherChecksPass(v_text, v_component))
         => v_out.reason = "valid"

\* a text of exactly the minimum length, with whitespace around it, is accepted
C14_Witness ==
  /\ v_op = "validate"
  /\ v_text.slen = ClaimedMinLength(v_component)
  /\ v_text.len > v_text.slen
  /\ v_out.reason = "valid"

\* C15: once the length and generic-phrase checks have passed, the text is
\* rejected as repetitive exactly when unique words / words is below the
\* minimum ratio of the component type
C15_RepetitiveBelowRatio ==
  (v_op = "validate" /\ v_text.slen >= ClaimedMinLength(v_component) /\ v_text.generic <= 5)
    => (v_out.reason = "repetitive"
          <=> 100 * v_text.uniq < ClaimedMinRatio(v_component) * v_text.words)

\* a text with a ratio of 0.15 is rejected as repetitive against 0.25
C15_Witness ==
  /\ v_op = "validate"
  /\ ClaimedMinRatio(v_component) = 25
  /\ 100 * v_text.uniq = 15 * v_text.words
  /\ v_out.reason = "repetitive"

\* C16: the emergency renderers return a non-empty text, without raising, for
\* every component type and every context
C16_RenderReturnsText ==
  v_op \in {"render_enhanced", "render_legacy"}
    => (v_out.reason = "returned" /\ v_out.text.len > 0)

\* C13: once every thread that called increment_usage has left it,
\* requests_made of each provider has grown by the number of calls made for it
C13_NoLostUpdate ==
  (\A t \in Threads : t_pc[t] = "done")
    => \A p \in providers :
         requests_made[p] = Cardinality({t \in Threads : t_provider[t] = p})

\* a step of the retry loop: one attempt on cur has just been made
AttemptStep == pc = "attempt" /\ series' # series

\* C21: after an attempt that failed as rate limited and before the next
\* attempt on the same backend the call waits 2 * 2^attempt seconds (2 s, then
\* 4 s); nothing is waited after the last attempt of a series, and a series
\* has at most 3 attempts
C21_BackoffBetweenRateLimited ==
  [][AttemptStep =>
       /\ (last'.kind = "rate limit" /\ pc' = "attempt")
            => now' = now + 2 * (2 ^ attempt)
       /\ pc' # "attempt" => now' = now
       /\ series'[Len(series')].n <= max_retries]_vars

\* C22: every attempt on a backend that returned is followed by one
\* _register_success (the text was accepted) or one _register_failure (any
\* other outcome, an empty or too short text included) before the next attempt
C22_EveryAttemptRecorded ==
  [][(AttemptStep /\ cur \in providers /\ last'.kind # "hang") =>
       IF last'.kind = "success"
         THEN consecutive_failures'[cur] = 0 /\ cur \notin disabled_providers'
         ELSE \/ error_count'[cur] = error_count[cur] + 1
              \/ /\ cur \in disabled_providers'
                 /\ reactivate_at'[cur] = now + QuotaCooldown]_vars

\* attempts the running call has made on registered backends
RegisteredAttempts == SumAttempts(SelectSeq(series, LAMBDA e : e.p \in providers))

\* each backend has at most one retry series in a call, of at most 3
\* attempts, so at most 3 attempts per registered backend are made
AttemptsBounded ==
  /\ \A i, j \in 1..Len(series) : series[i].p = series[j].p => i = j
  /\ \A i \in 1..Len(series) : series[i].n <= max_retries
  /\ RegisteredAttempts <= max_retries * Cardinality(providers)

\* a text a backend produced, or the text of an emergency template
BackendOrEmergencyText(c) ==
  \/ c \in BackendTexts /\ c.len > 0
  \/ c.id \in {"enhanced", "legacy"} /\ c.len > 0

\* C23: a generate call makes at most one retry series per backend, at most
\* 3 attempts in each, at most 3 * (number of backends) in all, and then
\* returns a backend text or the emergency text
C23_BoundedThenText ==
  /\ AttemptsBounded
  /\ pc = "done" => BackendOrEmergencyText(result)

\* the backend is registered, not disabled and under its quota
Eligible(p) ==
  /\ p \in providers
  /\ p \notin disabled_providers
  /\ requests_made[p] < daily[p]

\* positions of the eligible backends in the priority list of the component
\* type of the running call
EligibleRanks ==
  {i \in 1..Len(priority_map(component_type)) : Eligible(priority_map(component_type)[i])}

\* the call is about to make its first attempt on a registered backend
FirstAttemptDue ==
  /\ pc = "attempt"
  /\ cur \in providers
  /\ series[Len(series)].n = 0
  /\ \A k \in 1..(Len(series) - 1) : series[k].p \notin providers

\* C24: the first backend attempted by a call is the highest-ranked one of
\* the priority list of its component type among the registered backends
\* that are not disabled and under quota
C24_FirstAttemptIsBestRanked ==
  FirstAttemptDue =>
    /\ EligibleRanks # {}
    /\ \A i \in EligibleRanks :
         (\A k \in EligibleRanks : i <= k) => cur = priority_map(component_type)[i]

\* C25: the backends of the fallback pass, the best-fit one aside, are taken
\* in ascending consecutive_failures, and by ascending priority rank (lower =
\* preferred) where consecutive_failures are equal
C25_FallbackByFailuresThenRank ==
  [][(pc = "select" /\ ~order_built /\ order_built') =>
       \A i, j \in 1..Len(fallback_order') :
         (i < j /\ fallback_order'[i] # best_provider /\ fallback_order'[j] # best_provider)
           => \/ consecutive_failures[fallback_order'[i]] < consecutive_failures[fallback_order'[j]]
              \/ /\ consecutive_failures[fallback_order'[i]] = consecutive_failures[fallback_order'[j]]
                 /\ priority[fallback_order'[i]] < priority[fallback_order'[j]]]_vars

\* C26: a failure registered with a quota message disables the backend and
\* sets reactivate_at to now + 3600, whatever consecutive_failures is
C26_QuotaFailureDisables ==
  [][(AttemptStep /\ cur \in providers /\ last'.kind = "quota") =>
       /\ cur \in disabled_providers'
       /\ reactivate_at'[cur] = now + QuotaCooldown]_vars

\* a quota failure has disabled a backend that had failures counted and one
\* that had none
C26_Witness ==
  /\ last.kind = "quota"
  /\ last.p \in disabled_providers
  /\ reactivate_at[last.p] = now + QuotaCooldown
  /\ consecutive_failures[last.p] > 0
  /\ \E q \in disabled_providers : consecutive_failures[q] = 0 /\ reactivate_at[q] > 0

\* C27: each attempt on a registered backend adds exactly one to
\* requests_made of that backend, whatever its outcome, and leaves the
\* counters of the other backends alone
C27_AttemptConsumesOne ==
  [][(AttemptStep /\ cur \in providers) =>
       requests_made' = [requests_made EXCEPT ![cur] = @ + 1]]_vars

\* C28: increment_usage on a backend whose window has elapsed starts the new
\* window first: requests_made is 1 and last_reset is the time of the call
\* right after it
C28_ConsumeResetsElapsedWindow ==
  (q_last.op = "increment_usage" /\ q_last.p \in ProviderNames
     /\ q_last.t - q_last.lr[q_last.p] >= Day)
    => /\ requests_made[q_last.p] = 1
       /\ last_reset[q_last.p] = q_last.t

\* C29: a quota check made when a backend's window has elapsed resets its
\* requests_made and moves last_reset to the time of the check; a check made
\* before changes neither, so the next reset is a full window later
C29_OneResetPerWindow ==
  q_last.op = "can_use_provider" =>
    \A b \in ProviderNames :
      IF q_last.t - q_last.lr[b] >= Day
        THEN requests_made[b] = 0 /\ last_reset[b] = q_last.t
        ELSE requests_made[b] = q_last.rm[b] /\ last_reset[b] = q_last.lr[b]

\* a check has reset a counter a second time, a full window after the first
\* reset, and a check half a window after a reset has left a counter alone
C29_Witness ==
  /\ q_last.op = "can_use_provider"
  /\ \E b \in ProviderNames :
       /\ q_last.lr[b] > 0
       /\ q_last.t - q_last.lr[b] >= Day
       /\ q_last.rm[b] > 0
       /\ requests_made[b] = 0
       /\ last_reset[b] = q_last.t

\* C30: the reactivation check at the start of a call changes nothing of a
\* backend whose reactivate_at is in the future and nothing of a backend that
\* is not disabled
C30_ReactivationLeavesOthers ==
  [][nreq' # nreq =>
       \A p \in ProviderNames :
         (p \notin disabled_providers \/ reactivate_at[p] > now) =>
           /\ consecutive_failures'[p] = consecutive_failures[p]
           /\ error_count'[p] = error_count[p]
           /\ reactivate_at'[p] = reactivate_at[p]
           /\ p \in disabled_providers' <=> p \in disabled_providers]_vars

\* a call has started with one backend still in its quota cooldown and
\* another one enabled with failures counted
C30_Witness ==
  /\ pc \in {"attempt", "select"}
  /\ last = NoAttempt
  /\ nreq > 1
  /\ \E p \in providers \cap disabled_providers : reactivate_at[p] > now
  /\ \E p \in providers \ disabled_providers : consecutive_failures[p] > 0

\* C31: with concurrent requests, an attempt whose text passed validation is
\* recorded as a success and returns its text, whatever other requests do to
\* disabled_providers meanwhile; no failure is recorded for it
C31_AcceptedAttemptSucceeds == \A t \in Threads : t_pc[t] # "failure_recorded"

\* the failure counters of every backend are ordered
CountersOrdered ==
  \A p \in ProviderNames :
    0 <= consecutive_failures[p] /\ consecutive_failures[p] <= error_count[p]

C33_QuotaFailureFrame ==
  [][(AttemptStep /\ cur \in providers /\ last'.kind = "quota") =>
       /\ consecutive_failures'[cur] = consecutive_failures[cur]
       /\ error_count'[cur] = error_count[cur]
       /\ \A q \in ProviderNames \ {cur} :
            /\ consecutive_failures'[q] = consecutive_failures[q]
            /\ error_count'[q] = error_count[q]
            /\ reactivate_at'[q] = reactivate_at[q]
            /\ q \in disabled_providers' <=> q \in disabled_providers
            /\ requests_made'[q] = requests_made[q]]_vars

\* a quota failure was registered for a backend with two failures counted
\* while another backend had failures counted too
C33_Witness ==
  /\ last.kind = "quota"
  /\ consecutive_failures[last.p] = 2
  /\ error_count[last.p] = 2
  /\ \E q \in providers \ {last.p} : consecutive_failures[q] > 0

\* the four checks of validate_content, each taken alone
FailsLength(t, ct) == t.len = 0 \/ t.slen < MIN_CONTENT_LENGTH(ct)
FailsGeneric(t) == t.generic > 5
FailsDiversity(t, ct) == 100 * t.uniq < ClaimedMinRatio(ct) * t.words \/ t.words = 0
FailsStructure(t) == ~t.struct /\ t.len > 500

\* C34: validate_content returns the reason of the first failing check in
\* the order length, generic phrases, lexical diversity, structure (this one
\* for texts longer than 500 characters only), and passes exactly when no
\* check fails
C34_FirstFailingReason ==
  v_op = "validate" =>
    LET t == v_text
        ct == v_component
        r == v_out.reason
    IN /\ r \in {"empty", "too short"} <=> FailsLength(t, ct)
       /\ r = "generic" <=> (~FailsLength(t, ct) /\ FailsGeneric(t))
       /\ r = "repetitive"
            <=> (~FailsLength(t, ct) /\ ~FailsGeneric(t) /\ FailsDiversity(t, ct))
       /\ r = "unstructured"
            <=> (~FailsLength(t, ct) /\ ~FailsGeneric(t) /\ ~FailsDiversity(t, ct)
                   /\ FailsStructure(t))
       /\ r = "valid"
            <=> ~(FailsLength(t, ct) \/ FailsGeneric(t) \/ FailsDiversity(t, ct)
                    \/ FailsStructure(t))

\* a text that fails the generic, diversity and structure checks is rejected
\* as generic
C34_Witness ==
  /\ v_op = "validate"
  /\ ~FailsLength(v_text, v_component)
  /\ FailsGeneric(v_text)
  /\ FailsDiversity(v_text, v_component)
  /\ FailsStructure(v_text)
  /\ v_out.reason = "generic"

C36_RemainingNotNegative ==
  \A p \in providers :
    /\ quota_daily_remaining(p) = daily[p] - requests_made[p]
    /\ quota_daily_remaining(p) >= 0

====
